---------------------------- MODULE Spec2Model ----------------------------
(***************************************************************************)
(* A model of the trait_type_map crate: TraitTypeMap<Dyn, F>, a map from   *)
(* TypeId to a boxed, type-erased per-type storage, with the two storage   *)
(* families VecFamily (VecOptionStorage: Vec<Option<T>> plus a cached      *)
(* count) and SingleFamily (OptionStorage: Option<T>).                     *)
(*                                                                         *)
(* Pure operators transcribe the methods of src/src/trait_type_map.rs; the *)
(* actions are the calls a client program makes on its maps.  A &mut       *)
(* borrow is modelled by writing the updated storage back into the entry   *)
(* it was borrowed from.  A panic (assert!/expect) unwinds out of the      *)
(* call: the run stops in the state the panic was raised in.               *)
(***************************************************************************)
EXTENDS Integers, Sequences, FiniteSets, TLC

VARIABLES
    maps,   \* the TraitTypeMap objects of the program: name -> [family, entries]
    last,   \* the most recent call: what was called, what it returned, how it failed
    hist    \* history of each storage object: what its client did to it

vars == <<maps, last, hist>>

-----------------------------------------------------------------------------
(* Bounds of the exploration *)

\* pushes into the storages of one multi-valued map
MaxPush == 2
\* largest capacity hint passed to with_capacity
MaxCap == 1

\* concrete types that implement TraitAccessible<Dyn> (impl_trait_accessible!)
Types == {"A", "B"}
\* values of a concrete type
Vals == {"v1", "v2"}
\* indices a client passes: every index in range and one past the largest
Idx == 0..MaxPush
\* the map a program holds in the one-map specification
MapNames == {"map"}

-----------------------------------------------------------------------------
(* Option<T> *)

None == <<>>
Some(v) == <<v>>
IsSome(o) == Len(o) = 1
IsNone(o) == Len(o) = 0
Unwrap(o) == o[1]

(* Panic messages of the crate *)
NoErr == "none"
ErrAlreadyRegistered == "type already registered"
ErrNotRegistered == "type not registered"
ErrWrongTVec == "wrong T for VecFamily"
ErrWrongTSingle == "wrong T for SingleFamily"

(* TypeId::of::<X>(): one token per type, equal iff the types are equal *)
TypeIdOf(x) == <<"TypeId", x>>
\* the ids a client can pass to get_trait_storage: those of the accessible
\* types and the id of a type that is never registered
ForeignId == TypeIdOf("Other")
TypeIds == {TypeIdOf(t) : t \in Types} \cup {ForeignId}

-----------------------------------------------------------------------------
(* TraitAccessor<T, Dyn> as impl_trait_accessible! builds it: the three    *)
(* coercions attach T's vtable to the value they are given.                *)

up_ref(t, v) == [vtable |-> t, data |-> v]
up_mut(t, v) == [vtable |-> t, data |-> v]
up_box(t, v) == [vtable |-> t, boxed |-> v]

-----------------------------------------------------------------------------
(* VecOptionStorage<T, Dyn> *)

VecOptionStorage_new(t) ==
    [kind |-> "VecOptionStorage", ty |-> t, data |-> <<>>, count |-> 0]

\* Vec::get / Vec::get_mut: bounds-checked access to position i (0-based)
slice_get(data, i) == IF i < Len(data) THEN Some(data[i + 1]) ELSE None

\* push without the count update
VecOptionStorage_push_keeps_count(s, v) ==
    [st |-> [s EXCEPT !.data = Append(@, Some(v))], ret |-> Len(s.data)]

\* push as a slot allocator would write it: a tombstoned slot is filled again
VecOptionStorage_push_reuses(s, v) ==
    LET free == {i \in 0..(Len(s.data) - 1) : IsNone(s.data[i + 1])}
        idx  == IF free = {} THEN Len(s.data) ELSE CHOOSE i \in free : TRUE
    IN  [st  |-> [s EXCEPT !.data = IF free = {} THEN Append(@, Some(v))
                                    ELSE [@ EXCEPT ![idx + 1] = Some(v)],
                           !.count = @ + 1],
         ret |-> idx]

\* push with the index read after the append
VecOptionStorage_push_len_after(s, v) ==
    [st  |-> [s EXCEPT !.data = Append(@, Some(v)), !.count = @ + 1],
     ret |-> Len(s.data) + 1]

VecOptionStorage_push(s, v) ==
    LET idx == Len(s.data)
    IN  [st  |-> [s EXCEPT !.data = Append(@, Some(v)), !.count = @ + 1],
         ret |-> idx]

\* Iterator::filter_map(|o| o.as_ref()) over the slots, front to back
RECURSIVE filter_map(_)
filter_map(data) ==
    IF data = <<>> THEN <<>>
    ELSE IF IsSome(Head(data)) THEN <<Unwrap(Head(data))>> \o filter_map(Tail(data))
    ELSE filter_map(Tail(data))

\* iter over the slots back to front
VecOptionStorage_iter_rev(s) ==
    LET it == filter_map(s.data)
    IN  [k \in 1..Len(it) |-> it[Len(it) + 1 - k]]

VecOptionStorage_iter(s) == filter_map(s.data)

VecOptionStorage_get(s, i) ==
    LET o == slice_get(s.data, i)
    IN  IF IsSome(o) THEN Unwrap(o) ELSE None

VecOptionStorage_get_mut(s, i) ==
    LET o == slice_get(s.data, i)
    IN  IF IsSome(o) THEN Unwrap(o) ELSE None

\* the slot a Some(&mut T) returned by get_mut(i) points to, assigned by the caller
write_through(s, i, w) == [s EXCEPT !.data[i + 1] = Some(w)]

\* take that pops the slot it emptied when it is the last one
VecOptionStorage_take_pops(s, i) ==
    LET o      == slice_get(s.data, i)
        result == IF IsSome(o) THEN Unwrap(o) ELSE None
        s1     == IF IsSome(o) THEN [s EXCEPT !.data[i + 1] = None] ELSE s
        s2     == IF IsSome(result) /\ i + 1 = Len(s.data)
                  THEN [s1 EXCEPT !.data = SubSeq(@, 1, i)] ELSE s1
    IN  [st  |-> IF IsSome(result) THEN [s2 EXCEPT !.count = @ - 1] ELSE s2,
         ret |-> result]

\* take without the count update
VecOptionStorage_take_keeps_count(s, i) ==
    LET o == slice_get(s.data, i)
    IN  [st  |-> IF IsSome(o) THEN [s EXCEPT !.data[i + 1] = None] ELSE s,
         ret |-> IF IsSome(o) THEN Unwrap(o) ELSE None]

\* take by Vec::remove: the slot is cut out and the later ones move down
VecOptionStorage_take_removes(s, i) ==
    LET o      == slice_get(s.data, i)
        result == IF IsSome(o) THEN Unwrap(o) ELSE None
        cut    == [k \in 1..(Len(s.data) - 1) |->
                      IF k < i + 1 THEN s.data[k] ELSE s.data[k + 1]]
    IN  [st  |-> IF IsSome(result)
                 THEN [s EXCEPT !.data = cut, !.count = @ - 1] ELSE s,
         ret |-> result]

\* take with the count update outside the is_some test
VecOptionStorage_take_always_counts(s, i) ==
    LET o      == slice_get(s.data, i)
        result == IF IsSome(o) THEN Unwrap(o) ELSE None
        s1     == IF IsSome(o) THEN [s EXCEPT !.data[i + 1] = None] ELSE s
    IN  [st |-> [s1 EXCEPT !.count = @ - 1], ret |-> result]

VecOptionStorage_take(s, i) ==
    LET o      == slice_get(s.data, i)
        result == IF IsSome(o) THEN Unwrap(o) ELSE None
        s1     == IF IsSome(o) THEN [s EXCEPT !.data[i + 1] = None] ELSE s
    IN  [st  |-> IF IsSome(result) THEN [s1 EXCEPT !.count = @ - 1] ELSE s1,
         ret |-> result]

\* get_dyn reading the i-th live value (iter().nth(i)) instead of slot i
VecOptionStorage_get_dyn_nth(s, i) ==
    LET it == filter_map(s.data)
    IN  IF i < Len(it) THEN Some(up_ref(s.ty, it[i + 1])) ELSE None

VecOptionStorage_get_dyn(s, i) ==
    LET g == VecOptionStorage_get(s, i)
    IN  IF IsSome(g) THEN Some(up_ref(s.ty, Unwrap(g))) ELSE None

VecOptionStorage_get_dyn_mut(s, i) ==
    LET g == VecOptionStorage_get_mut(s, i)
    IN  IF IsSome(g) THEN Some(up_mut(s.ty, Unwrap(g))) ELSE None

\* take_boxed that counts the removal itself after take has counted it
VecOptionStorage_take_boxed_recounts(s, i) ==
    LET r == VecOptionStorage_take(s, i)
    IN  [st  |-> IF IsSome(r.ret) THEN [r.st EXCEPT !.count = @ - 1] ELSE r.st,
         ret |-> IF IsSome(r.ret) THEN Some(up_box(s.ty, Unwrap(r.ret))) ELSE None]

VecOptionStorage_take_boxed(s, i) ==
    LET r == VecOptionStorage_take(s, i)
    IN  [st  |-> r.st,
         ret |-> IF IsSome(r.ret) THEN Some(up_box(s.ty, Unwrap(r.ret))) ELSE None]

(* impl TraitVecStorage<Dyn> for VecOptionStorage<T, Dyn> *)

\* len as the length of the underlying sequence
TraitVecStorage_len_of_data(s) == Len(s.data)

TraitVecStorage_len(s) == s.count
TraitVecStorage_is_empty(s) == TraitVecStorage_len(s) = 0
TraitVecStorage_get(s, idx) == VecOptionStorage_get_dyn(s, idx)
TraitVecStorage_get_mut(s, idx) == VecOptionStorage_get_dyn_mut(s, idx)
TraitVecStorage_take_boxed(s, idx) == VecOptionStorage_take_boxed(s, idx)


\* as_storage_any returning the data field instead of the storage
as_storage_any_of_data(s) == [type_id |-> TypeIdOf(<<"Data", s.ty>>), target |-> s]

\* as_storage_any / as_storage_any_mut: the storage as &dyn Any, which carries
\* the TypeId of the storage's own concrete type
as_storage_any(s) == [type_id |-> TypeIdOf(<<s.kind, s.ty>>), target |-> s]

\* <dyn Any>::downcast_ref::<X>() / downcast_mut::<X>()
downcast(any, x) == IF any.type_id = TypeIdOf(x) THEN Some(any.target) ELSE None

-----------------------------------------------------------------------------
(* OptionStorage<T, Dyn> *)

OptionStorage_new(t) == [kind |-> "OptionStorage", ty |-> t, data |-> None]

\* set that keeps a value that is already there
OptionStorage_set_if_empty(s, v) == IF IsSome(s.data) THEN s ELSE [s EXCEPT !.data = Some(v)]

OptionStorage_set(s, v) == [s EXCEPT !.data = Some(v)]

OptionStorage_get(s) == s.data

OptionStorage_get_mut(s) == s.data

\* the slot a Some(&mut T) returned by get_mut() points to, assigned by the caller
write_through_single(s, w) == [s EXCEPT !.data = Some(w)]

\* take that hands out the value and leaves it in the slot
OptionStorage_take_peeks(s) == [st |-> s, ret |-> s.data]

\* Option::take: leaves None in the slot and returns what was there
OptionStorage_take(s) == [st |-> [s EXCEPT !.data = None], ret |-> s.data]

OptionStorage_is_some(s) == IsSome(s.data)

OptionStorage_get_dyn(s) ==
    LET g == OptionStorage_get(s)
    IN  IF IsSome(g) THEN Some(up_ref(s.ty, Unwrap(g))) ELSE None

OptionStorage_get_dyn_mut(s) ==
    LET g == OptionStorage_get_mut(s)
    IN  IF IsSome(g) THEN Some(up_mut(s.ty, Unwrap(g))) ELSE None

OptionStorage_take_boxed(s) ==
    LET r == OptionStorage_take(s)
    IN  [st  |-> r.st,
         ret |-> IF IsSome(r.ret) THEN Some(up_box(s.ty, Unwrap(r.ret))) ELSE None]

(* impl TraitSingleStorage<Dyn> for OptionStorage<T, Dyn> *)

TraitSingleStorage_is_some(s) == OptionStorage_is_some(s)
TraitSingleStorage_get(s) == OptionStorage_get_dyn(s)
TraitSingleStorage_get_mut(s) == OptionStorage_get_dyn_mut(s)
TraitSingleStorage_take_boxed(s) == OptionStorage_take_boxed(s)

-----------------------------------------------------------------------------
(* StorageFamily<Dyn> for VecFamily and for SingleFamily *)

Families == {"VecFamily", "SingleFamily"}

\* the name of F::Storage<T>
StorageOf(f, t) ==
    IF f = "VecFamily" THEN <<"VecOptionStorage", t>> ELSE <<"OptionStorage", t>>

\* F::make::<T>(T::get_accessor())
make(f, t) ==
    IF f = "VecFamily" THEN VecOptionStorage_new(t) ELSE OptionStorage_new(t)

\* F::storage_ref::<T>(e): downcast, .expect("wrong T for ...")
storage_ref(f, t, e) ==
    LET d == downcast(as_storage_any(e), StorageOf(f, t))
    IN  IF IsSome(d)
        THEN [err |-> NoErr, st |-> Unwrap(d)]
        ELSE [err |-> IF f = "VecFamily" THEN ErrWrongTVec ELSE ErrWrongTSingle,
              st  |-> e]

storage_mut(f, t, e) ==
    LET d == downcast(as_storage_any(e), StorageOf(f, t))
    IN  IF IsSome(d)
        THEN [err |-> NoErr, st |-> Unwrap(d)]
        ELSE [err |-> IF f = "VecFamily" THEN ErrWrongTVec ELSE ErrWrongTSingle,
              st  |-> e]

-----------------------------------------------------------------------------
(* TraitTypeMap<Dyn, F>: entries is a function from the registered TypeIds *)

\* AHashMap::get / get_mut
hash_get(entries, k) == IF k \in DOMAIN entries THEN Some(entries[k]) ELSE None

\* an insert that rebuilds the table around the new key
hash_insert_rebuilds(entries, k, v) ==
    [entries |-> [x \in {k} |-> v],
     old     |-> hash_get(entries, k)]

\* AHashMap::insert: stores v under k and returns the value it replaced
hash_insert(entries, k, v) ==
    [entries |-> [x \in DOMAIN entries \cup {k} |-> IF x = k THEN v ELSE entries[x]],
     old     |-> hash_get(entries, k)]

TraitTypeMap_new(f) == [family |-> f, entries |-> <<>>]

\* with_capacity that fills the table it sizes with a placeholder storage
TraitTypeMap_with_capacity_filled(f, capacity) ==
    [family  |-> f,
     entries |-> IF capacity = 0 THEN <<>>
                 ELSE [id \in {TypeIdOf("A")} |-> make(f, "A")]]

TraitTypeMap_with_capacity(f, capacity) == [family |-> f, entries |-> <<>>]

\* registration without the assert
register_type_storage_unchecked(map, t) ==
    [map |-> [map EXCEPT !.entries =
                 hash_insert(map.entries, TypeIdOf(t), make(map.family, t)).entries],
     err |-> NoErr]

\* a duplicate registration that drops the key it found before failing
register_type_storage_drops(map, t) ==
    LET id == TypeIdOf(t)
    IN  IF id \in DOMAIN map.entries
        THEN [map |-> [map EXCEPT !.entries =
                         [x \in DOMAIN map.entries \ {id} |-> map.entries[x]]],
              err |-> ErrAlreadyRegistered]
        ELSE [map |-> [map EXCEPT !.entries =
                         hash_insert(map.entries, id, make(map.family, t)).entries],
              err |-> NoErr]

register_type_storage(map, t) ==
    LET id       == TypeIdOf(t)
        ins      == hash_insert(map.entries, id, make(map.family, t))
        inserted == IsNone(ins.old)
    IN  [map |-> [map EXCEPT !.entries = ins.entries],
         err |-> IF inserted THEN NoErr ELSE ErrAlreadyRegistered]

\* get_storage that builds a storage for a type it does not find
get_storage_or_default(map, t) ==
    LET e == hash_get(map.entries, TypeIdOf(t))
    IN  IF IsNone(e)
        THEN [err |-> NoErr, st |-> make(map.family, t)]
        ELSE storage_ref(map.family, t, Unwrap(e))

get_storage(map, t) ==
    LET e == hash_get(map.entries, TypeIdOf(t))
    IN  IF IsNone(e)
        THEN [err |-> ErrNotRegistered, st |-> None]
        ELSE storage_ref(map.family, t, Unwrap(e))

get_storage_mut(map, t) ==
    LET e == hash_get(map.entries, TypeIdOf(t))
    IN  IF IsNone(e)
        THEN [err |-> ErrNotRegistered, st |-> None]
        ELSE storage_mut(map.family, t, Unwrap(e))

get_trait_storage(map, id) == hash_get(map.entries, id)

get_trait_storage_mut(map, id) == hash_get(map.entries, id)

-----------------------------------------------------------------------------
(* The client program: calls on its maps, one action per method            *)

\* what a call leaves in `last`: ret is always an option (None for unit)
Call(op, via, m, id, idx, ret, err) ==
    [op |-> op, by |-> via, m |-> m, id |-> id, idx |-> idx, ret |-> ret, err |-> err]

\* no call has panicked so far
Running == last.err = NoErr

\* history of a fresh storage object: the indices its pushes returned, in call
\* order; the indices a take returned a value for; the value its client last
\* put at each index it has not taken (by push/set or through a &mut); the
\* value the most recent set replaced, if no take came after it
EmptyHist == [pushed |-> <<>>, taken |-> {}, written |-> <<>>, replaced |-> None]

HistPut(h, i, v) ==
    [h EXCEPT !.written = [x \in DOMAIN h.written \cup {i} |->
                              IF x = i THEN v ELSE h.written[x]]]
HistDrop(h, i) ==
    [h EXCEPT !.taken = @ \cup {i},
              !.written = [x \in DOMAIN h.written \ {i} |-> h.written[x]],
              !.replaced = None]
HistPush(h, i, v) == HistPut([h EXCEPT !.pushed = Append(@, i)], i, v)

HistSet(h, v) ==
    HistPut([h EXCEPT !.replaced = IF 0 \in DOMAIN h.written
                                   THEN Some(h.written[0]) ELSE None], 0, v)

RECURSIVE SumLen(_, _)
SumLen(entries, ids) ==
    IF ids = {} THEN 0
    ELSE LET k == CHOOSE x \in ids : TRUE
         IN  Len(entries[k].data) + SumLen(entries, ids \ {k})
\* pushes made so far into the storages of a multi-valued map
TotalLen(map) == SumLen(map.entries, DOMAIN map.entries)

IsVec(m) == maps[m].family = "VecFamily"
IsSingle(m) == maps[m].family = "SingleFamily"

\* the call panicked before it touched a storage
Panics(op, via, m, id, idx, err) ==
    /\ last' = Call(op, via, m, id, idx, None, err)
    /\ UNCHANGED <<maps, hist>>

\* the call returned ret and left st in the entry it borrowed, with history h
Returns(op, via, m, id, idx, ret, st, h) ==
    /\ last' = Call(op, via, m, id, idx, ret, NoErr)
    /\ maps' = [maps EXCEPT ![m].entries[id] = st]
    /\ hist' = [hist EXCEPT ![m][id] = h]

\* a call that only reads
Reads(op, via, m, id, idx, ret) ==
    /\ last' = Call(op, via, m, id, idx, ret, NoErr)
    /\ UNCHANGED <<maps, hist>>

(* ---- the map ---- *)

Init ==
    \E f \in Families, ctor \in {"new", "with_capacity"}, n \in 0..MaxCap :
        /\ maps = [m \in MapNames |->
                      IF ctor = "new" THEN TraitTypeMap_new(f)
                      ELSE TraitTypeMap_with_capacity(f, n)]
        /\ last = Call(ctor, "map", "map", ForeignId,
                       IF ctor = "new" THEN 0 ELSE n, None, NoErr)
        /\ hist = [m \in MapNames |-> [id \in TypeIds |-> EmptyHist]]

\* registration into a registry shared by every map of the program
RegisterTypeStorage_global(m, t) ==
    /\ Running
    /\ maps' = [x \in DOMAIN maps |-> register_type_storage(maps[x], t).map]
    /\ last' = Call("register_type_storage", "map", m, TypeIdOf(t), 0, None,
                    register_type_storage(maps[m], t).err)
    /\ hist' = [hist EXCEPT ![m][TypeIdOf(t)] = EmptyHist]

RegisterTypeStorage(m, t) ==
    /\ Running
    /\ LET r == register_type_storage(maps[m], t)
       IN  /\ maps' = [maps EXCEPT ![m] = r.map]
           /\ last' = Call("register_type_storage", "map", m, TypeIdOf(t), 0, None, r.err)
           /\ hist' = [hist EXCEPT ![m][TypeIdOf(t)] = EmptyHist]

GetStorage(m, t) ==
    /\ Running
    /\ LET g == get_storage(maps[m], t)
       IN  IF g.err # NoErr
           THEN Panics("get_storage", "map", m, TypeIdOf(t), 0, g.err)
           ELSE Reads("get_storage", "map", m, TypeIdOf(t), 0, Some(g.st))

GetStorageMut(m, t) ==
    /\ Running
    /\ LET g == get_storage_mut(maps[m], t)
       IN  IF g.err # NoErr
           THEN Panics("get_storage_mut", "map", m, TypeIdOf(t), 0, g.err)
           ELSE Reads("get_storage_mut", "map", m, TypeIdOf(t), 0, Some(g.st))

GetTraitStorage(m, id) ==
    /\ Running
    /\ Reads("get_trait_storage", "map", m, id, 0, get_trait_storage(maps[m], id))

GetTraitStorageMut(m, id) ==
    /\ Running
    /\ Reads("get_trait_storage_mut", "map", m, id, 0, get_trait_storage_mut(maps[m], id))

(* ---- multi-valued storage through get_storage / get_storage_mut ---- *)

\* what the holder of a Some(&mut ..) does with it: leave the value, or assign one
Writes == Vals \cup {"keep"}

Push(m, t, v) ==
    /\ Running /\ IsVec(m)
    /\ TotalLen(maps[m]) < MaxPush
    /\ LET id == TypeIdOf(t)
           g  == get_storage_mut(maps[m], t)
           r  == VecOptionStorage_push(g.st, v)
       IN  IF g.err # NoErr THEN Panics("push", "typed", m, id, 0, g.err)
           ELSE Returns("push", "typed", m, id, 0, Some(r.ret), r.st,
                        HistPush(hist[m][id], r.ret, v))

Get(m, t, i) ==
    /\ Running /\ IsVec(m)
    /\ LET id == TypeIdOf(t)
           g  == get_storage(maps[m], t)
       IN  IF g.err # NoErr THEN Panics("get", "typed", m, id, i, g.err)
           ELSE Reads("get", "typed", m, id, i, VecOptionStorage_get(g.st, i))

GetMut(m, t, i, w) ==
    /\ Running /\ IsVec(m)
    /\ LET id  == TypeIdOf(t)
           g   == get_storage_mut(maps[m], t)
           ret == VecOptionStorage_get_mut(g.st, i)
           wr  == IsSome(ret) /\ w # "keep"
       IN  IF g.err # NoErr THEN Panics("get_mut", "typed", m, id, i, g.err)
           ELSE Returns("get_mut", "typed", m, id, i, ret,
                        IF wr THEN write_through(g.st, i, w) ELSE g.st,
                        IF wr THEN HistPut(hist[m][id], i, w) ELSE hist[m][id])

Take(m, t, i) ==
    /\ Running /\ IsVec(m)
    /\ LET id == TypeIdOf(t)
           g  == get_storage_mut(maps[m], t)
           r  == VecOptionStorage_take(g.st, i)
       IN  IF g.err # NoErr THEN Panics("take", "typed", m, id, i, g.err)
           ELSE Returns("take", "typed", m, id, i, r.ret, r.st,
                        IF IsSome(r.ret) THEN HistDrop(hist[m][id], i) ELSE hist[m][id])

GetDyn(m, t, i) ==
    /\ Running /\ IsVec(m)
    /\ LET id == TypeIdOf(t)
           g  == get_storage(maps[m], t)
       IN  IF g.err # NoErr THEN Panics("get_dyn", "typed", m, id, i, g.err)
           ELSE Reads("get_dyn", "typed", m, id, i, VecOptionStorage_get_dyn(g.st, i))

GetDynMut(m, t, i, w) ==
    /\ Running /\ IsVec(m)
    /\ LET id  == TypeIdOf(t)
           g   == get_storage_mut(maps[m], t)
           ret == VecOptionStorage_get_dyn_mut(g.st, i)
           wr  == IsSome(ret) /\ w # "keep"
       IN  IF g.err # NoErr THEN Panics("get_dyn_mut", "typed", m, id, i, g.err)
           ELSE Returns("get_dyn_mut", "typed", m, id, i, ret,
                        IF wr THEN write_through(g.st, i, w) ELSE g.st,
                        IF wr THEN HistPut(hist[m][id], i, w) ELSE hist[m][id])

TakeBoxed(m, t, i) ==
    /\ Running /\ IsVec(m)
    /\ LET id == TypeIdOf(t)
           g  == get_storage_mut(maps[m], t)
           r  == VecOptionStorage_take_boxed(g.st, i)
       IN  IF g.err # NoErr THEN Panics("take_boxed", "typed", m, id, i, g.err)
           ELSE Returns("take_boxed", "typed", m, id, i, r.ret, r.st,
                        IF IsSome(r.ret) THEN HistDrop(hist[m][id], i) ELSE hist[m][id])

Iter(m, t) ==
    /\ Running /\ IsVec(m)
    /\ LET id == TypeIdOf(t)
           g  == get_storage(maps[m], t)
       IN  IF g.err # NoErr THEN Panics("iter", "typed", m, id, 0, g.err)
           ELSE Reads("iter", "typed", m, id, 0, Some(VecOptionStorage_iter(g.st)))

LenOf(m, t) ==
    /\ Running /\ IsVec(m)
    /\ LET id == TypeIdOf(t)
           g  == get_storage(maps[m], t)
       IN  IF g.err # NoErr THEN Panics("len", "typed", m, id, 0, g.err)
           ELSE Reads("len", "typed", m, id, 0, Some(TraitVecStorage_len(g.st)))

IsEmptyOf(m, t) ==
    /\ Running /\ IsVec(m)
    /\ LET id == TypeIdOf(t)
           g  == get_storage(maps[m], t)
       IN  IF g.err # NoErr THEN Panics("is_empty", "typed", m, id, 0, g.err)
           ELSE Reads("is_empty", "typed", m, id, 0, Some(TraitVecStorage_is_empty(g.st)))

(* ---- multi-valued storage through the handle of get_trait_storage{_mut} ---- *)

HandleLen(m, id) ==
    /\ Running /\ IsVec(m)
    /\ LET h == get_trait_storage(maps[m], id)
       IN  /\ IsSome(h)
           /\ Reads("len", "handle", m, id, 0, Some(TraitVecStorage_len(Unwrap(h))))

HandleIsEmpty(m, id) ==
    /\ Running /\ IsVec(m)
    /\ LET h == get_trait_storage(maps[m], id)
       IN  /\ IsSome(h)
           /\ Reads("is_empty", "handle", m, id, 0,
                    Some(TraitVecStorage_is_empty(Unwrap(h))))

HandleGet(m, id, i) ==
    /\ Running /\ IsVec(m)
    /\ LET h == get_trait_storage(maps[m], id)
       IN  /\ IsSome(h)
           /\ Reads("get", "handle", m, id, i, TraitVecStorage_get(Unwrap(h), i))

HandleGetMut(m, id, i, w) ==
    /\ Running /\ IsVec(m)
    /\ LET h   == get_trait_storage_mut(maps[m], id)
           s   == Unwrap(h)
           ret == TraitVecStorage_get_mut(s, i)
           wr  == IsSome(ret) /\ w # "keep"
       IN  /\ IsSome(h)
           /\ Returns("get_mut", "handle", m, id, i, ret,
                      IF wr THEN write_through(s, i, w) ELSE s,
                      IF wr THEN HistPut(hist[m][id], i, w) ELSE hist[m][id])

HandleTakeBoxed(m, id, i) ==
    /\ Running /\ IsVec(m)
    /\ LET h == get_trait_storage_mut(maps[m], id)
           r == TraitVecStorage_take_boxed(Unwrap(h), i)
       IN  /\ IsSome(h)
           /\ Returns("take_boxed", "handle", m, id, i, r.ret, r.st,
                      IF IsSome(r.ret) THEN HistDrop(hist[m][id], i) ELSE hist[m][id])

(* ---- single-valued storage through get_storage / get_storage_mut ---- *)

SetValue(m, t, v) ==
    /\ Running /\ IsSingle(m)
    /\ LET id == TypeIdOf(t)
           g  == get_storage_mut(maps[m], t)
       IN  IF g.err # NoErr THEN Panics("set", "typed", m, id, 0, g.err)
           ELSE Returns("set", "typed", m, id, 0, None, OptionStorage_set(g.st, v),
                        HistSet(hist[m][id], v))

SingleGet(m, t) ==
    /\ Running /\ IsSingle(m)
    /\ LET id == TypeIdOf(t)
           g  == get_storage(maps[m], t)
       IN  IF g.err # NoErr THEN Panics("get", "typed", m, id, 0, g.err)
           ELSE Reads("get", "typed", m, id, 0, OptionStorage_get(g.st))

SingleGetMut(m, t, w) ==
    /\ Running /\ IsSingle(m)
    /\ LET id  == TypeIdOf(t)
           g   == get_storage_mut(maps[m], t)
           ret == OptionStorage_get_mut(g.st)
           wr  == IsSome(ret) /\ w # "keep"
       IN  IF g.err # NoErr THEN Panics("get_mut", "typed", m, id, 0, g.err)
           ELSE Returns("get_mut", "typed", m, id, 0, ret,
                        IF wr THEN write_through_single(g.st, w) ELSE g.st,
                        IF wr THEN HistPut(hist[m][id], 0, w) ELSE hist[m][id])

SingleTake(m, t) ==
    /\ Running /\ IsSingle(m)
    /\ LET id == TypeIdOf(t)
           g  == get_storage_mut(maps[m], t)
           r  == OptionStorage_take(g.st)
       IN  IF g.err # NoErr THEN Panics("take", "typed", m, id, 0, g.err)
           ELSE Returns("take", "typed", m, id, 0, r.ret, r.st,
                        IF IsSome(r.ret) THEN HistDrop(hist[m][id], 0) ELSE hist[m][id])

SingleIsSome(m, t) ==
    /\ Running /\ IsSingle(m)
    /\ LET id == TypeIdOf(t)
           g  == get_storage(maps[m], t)
       IN  IF g.err # NoErr THEN Panics("is_some", "typed", m, id, 0, g.err)
           ELSE Reads("is_some", "typed", m, id, 0, Some(OptionStorage_is_some(g.st)))

SingleGetDyn(m, t) ==
    /\ Running /\ IsSingle(m)
    /\ LET id == TypeIdOf(t)
           g  == get_storage(maps[m], t)
       IN  IF g.err # NoErr THEN Panics("get_dyn", "typed", m, id, 0, g.err)
           ELSE Reads("get_dyn", "typed", m, id, 0, OptionStorage_get_dyn(g.st))

SingleGetDynMut(m, t, w) ==
    /\ Running /\ IsSingle(m)
    /\ LET id  == TypeIdOf(t)
           g   == get_storage_mut(maps[m], t)
           ret == OptionStorage_get_dyn_mut(g.st)
           wr  == IsSome(ret) /\ w # "keep"
       IN  IF g.err # NoErr THEN Panics("get_dyn_mut", "typed", m, id, 0, g.err)
           ELSE Returns("get_dyn_mut", "typed", m, id, 0, ret,
                        IF wr THEN write_through_single(g.st, w) ELSE g.st,
                        IF wr THEN HistPut(hist[m][id], 0, w) ELSE hist[m][id])

SingleTakeBoxed(m, t) ==
    /\ Running /\ IsSingle(m)
    /\ LET id == TypeIdOf(t)
           g  == get_storage_mut(maps[m], t)
           r  == OptionStorage_take_boxed(g.st)
       IN  IF g.err # NoErr THEN Panics("take_boxed", "typed", m, id, 0, g.err)
           ELSE Returns("take_boxed", "typed", m, id, 0, r.ret, r.st,
                        IF IsSome(r.ret) THEN HistDrop(hist[m][id], 0) ELSE hist[m][id])

(* ---- single-valued storage through the handle of get_trait_storage{_mut} ---- *)

SingleHandleIsSome(m, id) ==
    /\ Running /\ IsSingle(m)
    /\ LET h == get_trait_storage(maps[m], id)
       IN  /\ IsSome(h)
           /\ Reads("is_some", "handle", m, id, 0,
                    Some(TraitSingleStorage_is_some(Unwrap(h))))

SingleHandleGet(m, id) ==
    /\ Running /\ IsSingle(m)
    /\ LET h == get_trait_storage(maps[m], id)
       IN  /\ IsSome(h)
           /\ Reads("get", "handle", m, id, 0, TraitSingleStorage_get(Unwrap(h)))

SingleHandleGetMut(m, id, w) ==
    /\ Running /\ IsSingle(m)
    /\ LET h   == get_trait_storage_mut(maps[m], id)
           s   == Unwrap(h)
           ret == TraitSingleStorage_get_mut(s)
           wr  == IsSome(ret) /\ w # "keep"
       IN  /\ IsSome(h)
           /\ Returns("get_mut", "handle", m, id, 0, ret,
                      IF wr THEN write_through_single(s, w) ELSE s,
                      IF wr THEN HistPut(hist[m][id], 0, w) ELSE hist[m][id])

SingleHandleTakeBoxed(m, id) ==
    /\ Running /\ IsSingle(m)
    /\ LET h == get_trait_storage_mut(maps[m], id)
           r == TraitSingleStorage_take_boxed(Unwrap(h))
       IN  /\ IsSome(h)
           /\ Returns("take_boxed", "handle", m, id, 0, r.ret, r.st,
                      IF IsSome(r.ret) THEN HistDrop(hist[m][id], 0) ELSE hist[m][id])

-----------------------------------------------------------------------------

Next ==
    \/ \E m \in DOMAIN maps, t \in Types : RegisterTypeStorage(m, t)
    \/ \E m \in DOMAIN maps, t \in Types : GetStorage(m, t)
    \/ \E m \in DOMAIN maps, t \in Types : GetStorageMut(m, t)
    \/ \E m \in DOMAIN maps, id \in TypeIds : GetTraitStorage(m, id)
    \/ \E m \in DOMAIN maps, id \in TypeIds : GetTraitStorageMut(m, id)
    \/ \E m \in DOMAIN maps, t \in Types, v \in Vals : Push(m, t, v)
    \/ \E m \in DOMAIN maps, t \in Types, i \in Idx : Get(m, t, i)
    \/ \E m \in DOMAIN maps, t \in Types, i \in Idx, w \in Writes : GetMut(m, t, i, w)
    \/ \E m \in DOMAIN maps, t \in Types, i \in Idx : Take(m, t, i)
    \/ \E m \in DOMAIN maps, t \in Types, i \in Idx : GetDyn(m, t, i)
    \/ \E m \in DOMAIN maps, t \in Types, i \in Idx, w \in Writes : GetDynMut(m, t, i, w)
    \/ \E m \in DOMAIN maps, t \in Types, i \in Idx : TakeBoxed(m, t, i)
    \/ \E m \in DOMAIN maps, t \in Types : Iter(m, t)
    \/ \E m \in DOMAIN maps, t \in Types : LenOf(m, t)
    \/ \E m \in DOMAIN maps, t \in Types : IsEmptyOf(m, t)
    \/ \E m \in DOMAIN maps, id \in TypeIds : HandleLen(m, id)
    \/ \E m \in DOMAIN maps, id \in TypeIds : HandleIsEmpty(m, id)
    \/ \E m \in DOMAIN maps, id \in TypeIds, i \in Idx : HandleGet(m, id, i)
    \/ \E m \in DOMAIN maps, id \in TypeIds, i \in Idx, w \in Writes : HandleGetMut(m, id, i, w)
    \/ \E m \in DOMAIN maps, id \in TypeIds, i \in Idx : HandleTakeBoxed(m, id, i)
    \/ \E m \in DOMAIN maps, t \in Types, v \in Vals : SetValue(m, t, v)
    \/ \E m \in DOMAIN maps, t \in Types : SingleGet(m, t)
    \/ \E m \in DOMAIN maps, t \in Types, w \in Writes : SingleGetMut(m, t, w)
    \/ \E m \in DOMAIN maps, t \in Types : SingleTake(m, t)
    \/ \E m \in DOMAIN maps, t \in Types : SingleIsSome(m, t)
    \/ \E m \in DOMAIN maps, t \in Types : SingleGetDyn(m, t)
    \/ \E m \in DOMAIN maps, t \in Types, w \in Writes : SingleGetDynMut(m, t, w)
    \/ \E m \in DOMAIN maps, t \in Types : SingleTakeBoxed(m, t)
    \/ \E m \in DOMAIN maps, id \in TypeIds : SingleHandleIsSome(m, id)
    \/ \E m \in DOMAIN maps, id \in TypeIds : SingleHandleGet(m, id)
    \/ \E m \in DOMAIN maps, id \in TypeIds, w \in Writes : SingleHandleGetMut(m, id, w)
    \/ \E m \in DOMAIN maps, id \in TypeIds : SingleHandleTakeBoxed(m, id)

Spec == Init /\ [][Next]_vars

(* A program that holds a multi-valued map M and a single-valued map S over *)
(* the same capability, and registers, stores and removes type A in both   *)

Init2 ==
    /\ maps = [m \in {"M", "S"} |->
                  TraitTypeMap_new(IF m = "M" THEN "VecFamily" ELSE "SingleFamily")]
    /\ last = Call("new", "map", "S", ForeignId, 0, None, NoErr)
    /\ hist = [m \in {"M", "S"} |-> [id \in TypeIds |-> EmptyHist]]

Next2 ==
    \/ \E m \in DOMAIN maps : RegisterTypeStorage(m, "A")
    \/ \E m \in DOMAIN maps, v \in Vals : Push(m, "A", v)
    \/ \E m \in DOMAIN maps, i \in Idx : Take(m, "A", i)
    \/ \E m \in DOMAIN maps, i \in Idx : TakeBoxed(m, "A", i)
    \/ \E m \in DOMAIN maps, i \in Idx : HandleTakeBoxed(m, TypeIdOf("A"), i)
    \/ \E m \in DOMAIN maps, v \in Vals : SetValue(m, "A", v)
    \/ \E m \in DOMAIN maps : SingleTake(m, "A")
    \/ \E m \in DOMAIN maps : SingleTakeBoxed(m, "A")
    \/ \E m \in DOMAIN maps : SingleHandleTakeBoxed(m, TypeIdOf("A"))

SpecTwo == Init2 /\ [][Next2]_vars

-----------------------------------------------------------------------------
(* Properties *)

Registered(m) == DOMAIN maps[m].entries
StorageAt(m, id) == maps[m].entries[id]
VecMaps == {m \in DOMAIN maps : IsVec(m)}
SingleMaps == {m \in DOMAIN maps : IsSingle(m)}
\* positions of the underlying sequence that hold a value
LiveSlots(s) == {i \in 0..(Len(s.data) - 1) : IsSome(s.data[i + 1])}
\* the last call was made on a storage of a multi-valued map and returned
LastOnVec == last.err = NoErr /\ last.by \in {"typed", "handle"} /\ last.m \in VecMaps
LastOnSingle == last.err = NoErr /\ last.by \in {"typed", "handle"} /\ last.m \in SingleMaps

\* C1: in every reachable state, len() of every multi-valued storage equals the
\* number of slots of its underlying sequence that hold a value, is_empty() is
\* true exactly when that number is 0, and a len()/is_empty() call returns them.
C1_CountConsistency ==
    /\ \A m \in VecMaps : \A id \in Registered(m) :
          LET s == StorageAt(m, id)
          IN  /\ TraitVecStorage_len(s) = Cardinality(LiveSlots(s))
              /\ TraitVecStorage_is_empty(s) <=> (Cardinality(LiveSlots(s)) = 0)
    /\ (LastOnVec /\ last.op = "len") =>
          Unwrap(last.ret) = Cardinality(LiveSlots(StorageAt(last.m, last.id)))
    /\ (LastOnVec /\ last.op = "is_empty") =>
          (Unwrap(last.ret) <=> LiveSlots(StorageAt(last.m, last.id)) = {})

\* a storage with a live slot and a tombstone, right after a removal through the handle
C1_Witness ==
    /\ LastOnVec /\ last.op = "take_boxed" /\ last.by = "handle" /\ IsSome(last.ret)
    /\ LET s == StorageAt(last.m, last.id)
       IN  Len(s.data) = 2 /\ TraitVecStorage_len(s) = 1

\* C2: every index a push returned and no take has removed still addresses, via
\* get and get_mut, the value that push put there (as its client last assigned
\* it through a mutable borrow of that index); taking another index shifts nothing.
C2_IndexStability ==
    \A m \in VecMaps : \A id \in Registered(m) :
        LET s == StorageAt(m, id)
            h == hist[m][id]
        IN  \A k \in 1..Len(h.pushed) :
                LET i == h.pushed[k]
                IN  i \notin h.taken =>
                      /\ i \in DOMAIN h.written
                      /\ VecOptionStorage_get(s, i) = Some(h.written[i])
                      /\ VecOptionStorage_get_mut(s, i) = Some(h.written[i])

\* index 0 has just been taken and index 1 still holds the value pushed there
C2_Witness ==
    /\ LastOnVec /\ last.op \in {"take", "take_boxed"} /\ IsSome(last.ret) /\ last.idx = 0
    /\ LET s == StorageAt(last.m, last.id)
           h == hist[last.m][last.id]
       IN  /\ h.pushed = <<0, 1>> /\ h.taken = {0}
           /\ VecOptionStorage_get(s, 1) = Some(h.written[1])

\* C3: once a take or take_boxed has returned a value for index i, get, get_mut,
\* get_dyn, get_dyn_mut, take and take_boxed (typed or through the handle) return
\* the empty option for i in every later state, and every such call made on i
\* returned it.
C3_TombstonePermanence ==
    /\ \A m \in VecMaps : \A id \in Registered(m) :
          LET s == StorageAt(m, id)
          IN  \A i \in hist[m][id].taken :
                /\ IsNone(VecOptionStorage_get(s, i))
                /\ IsNone(VecOptionStorage_get_mut(s, i))
                /\ IsNone(VecOptionStorage_get_dyn(s, i))
                /\ IsNone(VecOptionStorage_get_dyn_mut(s, i))
                /\ IsNone(VecOptionStorage_take(s, i).ret)
                /\ IsNone(VecOptionStorage_take_boxed(s, i).ret)
                /\ IsNone(TraitVecStorage_get(s, i))
                /\ IsNone(TraitVecStorage_get_mut(s, i))
                /\ IsNone(TraitVecStorage_take_boxed(s, i).ret)
    /\ (/\ LastOnVec
        /\ last.op \in {"get", "get_mut", "get_dyn", "get_dyn_mut"}
        /\ last.idx \in hist[last.m][last.id].taken) => IsNone(last.ret)

\* index 0 was taken, a later push went to index 1, and a get of index 0 came back empty
C3_Witness ==
    /\ LastOnVec /\ last.op = "get" /\ last.idx = 0 /\ IsNone(last.ret)
    /\ hist[last.m][last.id].taken = {0}
    /\ hist[last.m][last.id].pushed = <<0, 1>>
    /\ IsSome(VecOptionStorage_get(StorageAt(last.m, last.id), 1))

\* a step that is a call, on a multi-valued storage, that returned
VecCall(ops) ==
    /\ last'.err = NoErr /\ last'.op \in ops
    /\ last'.by \in {"typed", "handle"} /\ last'.m \in VecMaps
SingleCall(ops) ==
    /\ last'.err = NoErr /\ last'.op \in ops
    /\ last'.by \in {"typed", "handle"} /\ last'.m \in SingleMaps

\* C4: every push returns the length the underlying sequence had just before the
\* call, an index that no earlier push into that storage returned (tombstoned or
\* not), so the indices returned are 0, 1, 2, ... in call order.
C4_PushIndex ==
    [][VecCall({"push"}) =>
         LET m == last'.m
             id == last'.id
             idx == Unwrap(last'.ret)
         IN  /\ idx = Len(StorageAt(m, id).data)
             /\ idx = Len(hist[m][id].pushed)
             /\ \A k \in 1..Len(hist[m][id].pushed) : hist[m][id].pushed[k] # idx
             /\ \A k \in 1..Len(hist'[m][id].pushed) : hist'[m][id].pushed[k] = k - 1]_vars

\* a push has just returned 1 into a storage whose index 0 is tombstoned
C4_Witness ==
    /\ LastOnVec /\ last.op = "push" /\ last.ret = Some(1)
    /\ hist[last.m][last.id].taken = {0}
    /\ hist[last.m][last.id].pushed = <<0, 1>>

\* C5: a register_type_storage call for a type whose key is already in the map
\* fails with "type already registered"; a call for a type whose key is not in
\* the map succeeds and leaves the key in the map.
C5_RegistrationUniqueness ==
    [][last'.op = "register_type_storage" =>
         LET m == last'.m
             id == last'.id
         IN  /\ id \in Registered(m) => last'.err = ErrAlreadyRegistered
             /\ id \notin Registered(m) =>
                    (last'.err = NoErr /\ id \in DOMAIN maps'[m].entries)]_vars

\* a second type was registered, then a registered type was registered again
C5_Witness ==
    /\ last.op = "register_type_storage" /\ last.err = ErrAlreadyRegistered
    /\ Cardinality(Registered(last.m)) = 2

\* C6: a register_type_storage call that fails with "type already registered"
\* leaves the map as it was: every key maps to the storage it mapped to before
\* the call, with every value stored in it.
C6_FailedRegistrationKeepsMap ==
    [][(last'.op = "register_type_storage" /\ last'.err = ErrAlreadyRegistered)
         => maps' = maps]_vars

\* C7: get_storage and get_storage_mut fail with "type not registered" exactly
\* when the type's key is not in the map and return otherwise;
\* get_trait_storage and get_trait_storage_mut never fail and return the empty
\* option exactly when the id is not a key of the map.
C7_UnregisteredAccess ==
    /\ \A m \in DOMAIN maps : \A t \in Types :
          /\ get_storage(maps[m], t).err =
                 (IF TypeIdOf(t) \in Registered(m) THEN NoErr ELSE ErrNotRegistered)
          /\ get_storage_mut(maps[m], t).err =
                 (IF TypeIdOf(t) \in Registered(m) THEN NoErr ELSE ErrNotRegistered)
    /\ \A m \in DOMAIN maps : \A id \in TypeIds :
          /\ IsNone(get_trait_storage(maps[m], id)) <=> id \notin Registered(m)
          /\ IsNone(get_trait_storage_mut(maps[m], id)) <=> id \notin Registered(m)
    /\ last.op \in {"get_storage", "get_storage_mut"} =>
          /\ last.err = ErrNotRegistered <=> last.id \notin Registered(last.m)
          /\ last.err = NoErr <=> last.id \in Registered(last.m)
    /\ last.op \in {"get_trait_storage", "get_trait_storage_mut"} =>
          /\ last.err = NoErr
          /\ IsNone(last.ret) <=> last.id \notin Registered(last.m)

\* get_storage has just failed for a type that is not registered, on a map that
\* holds another type
C7_Witness ==
    /\ last.op = "get_storage" /\ last.err = ErrNotRegistered
    /\ Registered(last.m) # {}
    /\ last.id \notin Registered(last.m)

\* C8: every key of a map is the TypeId of an accessible type T and maps to a
\* storage whose own concrete type is F::Storage<T>, so the downcast of
\* storage_ref / storage_mut succeeds for every registered T and no call ever
\* fails with "wrong T for VecFamily" or "wrong T for SingleFamily".
C8_DowncastSound ==
    /\ \A m \in DOMAIN maps : \A id \in Registered(m) :
          \E t \in Types :
              /\ id = TypeIdOf(t)
              /\ as_storage_any(StorageAt(m, id)).type_id
                     = TypeIdOf(StorageOf(maps[m].family, t))
    /\ \A m \in DOMAIN maps : \A t \in Types :
          TypeIdOf(t) \in Registered(m) =>
              /\ storage_ref(maps[m].family, t, StorageAt(m, TypeIdOf(t))).err = NoErr
              /\ storage_mut(maps[m].family, t, StorageAt(m, TypeIdOf(t))).err = NoErr
              /\ get_storage(maps[m], t).err = NoErr
              /\ get_storage_mut(maps[m], t).err = NoErr
    /\ last.err \notin {ErrWrongTVec, ErrWrongTSingle}

\* both types are registered and hold values, and get_storage has just returned
C8_Witness ==
    /\ last.op = "get_storage" /\ last.err = NoErr
    /\ Cardinality(Registered(last.m)) = 2
    /\ \A id \in Registered(last.m) : StorageAt(last.m, id).data # <<>>

\* the typed view and the handle view of the storage registered for t
TypedView(m, t) == get_storage(maps[m], t).st
HandleView(m, t) == Unwrap(get_trait_storage(maps[m], TypeIdOf(t)))

\* C9: for every registered T the handle of get_trait_storage(TypeId(T)) and the
\* typed storage of get_storage::<T>() agree: len / is_empty and the presence at
\* every index (multi), is_some and the presence of the value (single); and a
\* value a take or take_boxed removed through either view is absent in both.
C9_TwoViews ==
    /\ \A m \in VecMaps : \A t \in Types :
          TypeIdOf(t) \in Registered(m) =>
              LET live == {i \in Idx : IsSome(VecOptionStorage_get(TypedView(m, t), i))}
              IN  /\ TraitVecStorage_len(HandleView(m, t)) = Cardinality(live)
                  /\ TraitVecStorage_is_empty(HandleView(m, t)) <=> (live = {})
                  /\ \A i \in Idx :
                        IsSome(TraitVecStorage_get(HandleView(m, t), i)) <=> (i \in live)
                  /\ \A i \in Idx :
                        IsSome(TraitVecStorage_get_mut(HandleView(m, t), i)) <=> (i \in live)
    /\ \A m \in SingleMaps : \A t \in Types :
          TypeIdOf(t) \in Registered(m) =>
              /\ TraitSingleStorage_is_some(HandleView(m, t))
                     <=> OptionStorage_is_some(TypedView(m, t))
              /\ IsSome(TraitSingleStorage_get(HandleView(m, t)))
                     <=> IsSome(OptionStorage_get(TypedView(m, t)))
              /\ IsSome(TraitSingleStorage_get_mut(HandleView(m, t)))
                     <=> IsSome(OptionStorage_get_mut(TypedView(m, t)))
    /\ (LastOnVec /\ last.op \in {"take", "take_boxed"} /\ IsSome(last.ret)) =>
          \E t \in Types :
              /\ last.id = TypeIdOf(t)
              /\ IsNone(VecOptionStorage_get(TypedView(last.m, t), last.idx))
              /\ IsNone(TraitVecStorage_get(HandleView(last.m, t), last.idx))
    /\ (LastOnSingle /\ last.op \in {"take", "take_boxed"} /\ IsSome(last.ret)) =>
          \E t \in Types :
              /\ last.id = TypeIdOf(t)
              /\ IsNone(OptionStorage_get(TypedView(last.m, t)))
              /\ ~TraitSingleStorage_is_some(HandleView(last.m, t))

\* a value pushed through the typed view has just been removed through the
\* handle, and another value of that storage is still there
C9_Witness ==
    /\ LastOnVec /\ last.by = "handle" /\ last.op = "take_boxed" /\ IsSome(last.ret)
    /\ TraitVecStorage_len(StorageAt(last.m, last.id)) = 1

\* the slot a call on a multi-valued storage addresses holds no value
Absent(s, i) == i >= Len(s.data) \/ IsNone(s.data[i + 1])

\* C10: a get, get_mut, get_dyn, get_dyn_mut, take or take_boxed on a
\* multi-valued storage, typed or through the handle, with an index at or beyond
\* the underlying length or on a tombstoned slot returns the empty option, does
\* not fail and leaves every map unchanged; so do get, get_mut, get_dyn,
\* get_dyn_mut, take and take_boxed on an empty single-valued storage.
C10_MissesAreNotErrors ==
    [][/\ (/\ last'.by \in {"typed", "handle"}
           /\ last'.m \in VecMaps
           /\ last'.op \in {"get", "get_mut", "get_dyn", "get_dyn_mut", "take", "take_boxed"}
           /\ last'.id \in Registered(last'.m)
           /\ Absent(StorageAt(last'.m, last'.id), last'.idx))
          => (last'.err = NoErr /\ IsNone(last'.ret) /\ maps' = maps)
       /\ (/\ last'.by \in {"typed", "handle"}
           /\ last'.m \in SingleMaps
           /\ last'.op \in {"get", "get_mut", "get_dyn", "get_dyn_mut", "take", "take_boxed"}
           /\ last'.id \in Registered(last'.m)
           /\ IsNone(StorageAt(last'.m, last'.id).data))
          => (last'.err = NoErr /\ IsNone(last'.ret) /\ maps' = maps)]_vars

\* a take of a tombstoned index has just returned the empty option
C10_Witness ==
    /\ LastOnVec /\ last.op = "take" /\ IsNone(last.ret)
    /\ last.idx \in hist[last.m][last.id].taken
    /\ last.idx < Len(StorageAt(last.m, last.id).data)

\* C11: from every reachable multi-valued storage, push(v) returning i followed
\* at once by take(i) returns v, leaves len() at the value it had before the
\* push, and leaves every index of the storage answering get as before.
C11_PushTakeRoundTrip ==
    \A m \in VecMaps : \A id \in Registered(m) : \A v \in Vals :
        LET s == StorageAt(m, id)
            p == VecOptionStorage_push(s, v)
            r == VecOptionStorage_take(p.st, p.ret)
        IN  /\ r.ret = Some(v)
            /\ TraitVecStorage_len(r.st) = TraitVecStorage_len(s)
            /\ \A i \in Idx : VecOptionStorage_get(r.st, i) = VecOptionStorage_get(s, i)

\* the index the latest push returned has just been taken, beside a live index
C11_Witness ==
    /\ LastOnVec /\ last.op = "take" /\ IsSome(last.ret)
    /\ LET s == StorageAt(last.m, last.id)
           h == hist[last.m][last.id]
       IN  /\ h.pushed = <<0, 1>> /\ last.idx = 1
           /\ IsSome(VecOptionStorage_get(s, 0))
           /\ TraitVecStorage_len(s) = 1

\* what the client of a single-valued storage put there last and has not taken
Current(h) == IF 0 \in DOMAIN h.written THEN Some(h.written[0]) ELSE None

\* C12: a single-valued storage holds the value of the most recent set (as its
\* client last assigned it through a mutable borrow) if no take or take_boxed
\* returned a value since, and nothing otherwise: get, get_mut and is_some
\* answer so in every reachable state, and so did every get() call.
C12_SingleHoldsLatestSet ==
    /\ \A m \in SingleMaps : \A id \in Registered(m) :
          LET s == StorageAt(m, id)
              h == hist[m][id]
          IN  /\ OptionStorage_get(s) = Current(h)
              /\ OptionStorage_get_mut(s) = Current(h)
              /\ OptionStorage_is_some(s) <=> IsSome(Current(h))
    /\ (LastOnSingle /\ last.op = "get" /\ last.by = "typed") =>
          last.ret = Current(hist[last.m][last.id])

\* a get has just returned the value of a set that replaced another value
C12_Witness ==
    /\ LastOnSingle /\ last.op = "get" /\ last.by = "typed" /\ IsSome(last.ret)
    /\ IsSome(hist[last.m][last.id].replaced)
    /\ last.ret # hist[last.m][last.id].replaced

\* C13: from every reachable single-valued storage, set(v) followed by take()
\* returns v and by take_boxed() returns v boxed; after either is_some() is
\* false and a second take or take_boxed returns the empty option.
C13_SetTakeRoundTrip ==
    \A m \in SingleMaps : \A id \in Registered(m) : \A v \in Vals :
        LET s  == OptionStorage_set(StorageAt(m, id), v)
            r  == OptionStorage_take(s)
            rb == OptionStorage_take_boxed(s)
        IN  /\ r.ret = Some(v)
            /\ ~OptionStorage_is_some(r.st)
            /\ IsNone(OptionStorage_take(r.st).ret)
            /\ IsNone(OptionStorage_take_boxed(r.st).ret)
            /\ IsSome(rb.ret) /\ Unwrap(rb.ret).boxed = v
            /\ ~OptionStorage_is_some(rb.st)
            /\ IsNone(OptionStorage_take(rb.st).ret)
            /\ IsNone(OptionStorage_take_boxed(rb.st).ret)

\* a take has just returned the value that was set and left the storage empty
C13_Witness ==
    /\ LastOnSingle /\ last.op = "take" /\ last.by = "typed" /\ IsSome(last.ret)
    /\ hist[last.m][last.id].taken = {0}
    /\ ~OptionStorage_is_some(StorageAt(last.m, last.id))

\* the members of a set of indices in ascending order
RECURSIVE Ascending(_)
Ascending(S) ==
    IF S = {} THEN <<>>
    ELSE LET lo == CHOOSE x \in S : \A y \in S : x <= y
         IN  <<lo>> \o Ascending(S \ {lo})

\* C14: iter() of a multi-valued storage yields the values at the indices that
\* were pushed and not taken, each once, in ascending index order: as many as
\* len(), and none when every slot is tombstoned; every iter() call returned so.
C14_IterLiveAscending ==
    /\ \A m \in VecMaps : \A id \in Registered(m) :
          LET s    == StorageAt(m, id)
              h    == hist[m][id]
              it   == VecOptionStorage_iter(s)
              idxs == Ascending({i \in 0..(Len(h.pushed) - 1) : i \notin h.taken})
          IN  /\ Len(it) = TraitVecStorage_len(s)
              /\ Len(it) = Len(idxs)
              /\ \A k \in 1..Len(idxs) : it[k] = h.written[idxs[k]]
              /\ LiveSlots(s) = {} => it = <<>>
    /\ (LastOnVec /\ last.op = "iter") =>
          LET h    == hist[last.m][last.id]
              idxs == Ascending({i \in 0..(Len(h.pushed) - 1) : i \notin h.taken})
          IN  Unwrap(last.ret) = [k \in 1..Len(idxs) |-> h.written[idxs[k]]]

\* iter() has just yielded two different values in the order they were pushed
C14_Witness ==
    /\ LastOnVec /\ last.op = "iter" /\ Len(Unwrap(last.ret)) = 2
    /\ Unwrap(last.ret)[1] # Unwrap(last.ret)[2]
    /\ Unwrap(last.ret)[1] = hist[last.m][last.id].written[0]

\* C15: for every registered T and every index (multi) or the one slot
\* (single), get, get_dyn, get_dyn_mut and the handle's get and get_mut are all
\* empty or all present, and when present the capability references carry T's
\* vtable and the very value get returns; take_boxed removes and returns, boxed
\* behind T's vtable, the value take would have returned, leaving the same storage.
C15_CapabilityViewConsistent ==
    /\ \A m \in VecMaps : \A t \in Types : \A i \in Idx :
          TypeIdOf(t) \in Registered(m) =>
              LET s == TypedView(m, t)
                  h == HandleView(m, t)
                  g == VecOptionStorage_get(s, i)
                  dyn == IF IsSome(g) THEN Some([vtable |-> t, data |-> Unwrap(g)]) ELSE None
                  r == VecOptionStorage_take(s, i)
                  rb == VecOptionStorage_take_boxed(s, i)
                  hb == TraitVecStorage_take_boxed(h, i)
              IN  /\ VecOptionStorage_get_dyn(s, i) = dyn
                  /\ VecOptionStorage_get_dyn_mut(s, i) = dyn
                  /\ TraitVecStorage_get(h, i) = dyn
                  /\ TraitVecStorage_get_mut(h, i) = dyn
                  /\ IsSome(rb.ret) <=> IsSome(r.ret)
                  /\ IsSome(rb.ret) =>
                        (Unwrap(rb.ret).boxed = Unwrap(r.ret) /\ Unwrap(rb.ret).vtable = t)
                  /\ rb.st = r.st
                  /\ hb = rb
    /\ \A m \in SingleMaps : \A t \in Types :
          TypeIdOf(t) \in Registered(m) =>
              LET s == TypedView(m, t)
                  h == HandleView(m, t)
                  g == OptionStorage_get(s)
                  dyn == IF IsSome(g) THEN Some([vtable |-> t, data |-> Unwrap(g)]) ELSE None
                  r == OptionStorage_take(s)
                  rb == OptionStorage_take_boxed(s)
                  hb == TraitSingleStorage_take_boxed(h)
              IN  /\ OptionStorage_get_dyn(s) = dyn
                  /\ OptionStorage_get_dyn_mut(s) = dyn
                  /\ TraitSingleStorage_get(h) = dyn
                  /\ TraitSingleStorage_get_mut(h) = dyn
                  /\ IsSome(rb.ret) <=> IsSome(r.ret)
                  /\ IsSome(rb.ret) =>
                        (Unwrap(rb.ret).boxed = Unwrap(r.ret) /\ Unwrap(rb.ret).vtable = t)
                  /\ rb.st = r.st
                  /\ hb = rb
    /\ (LastOnVec /\ last.op = "get_dyn") =>
          \E t \in Types :
              /\ last.id = TypeIdOf(t)
              /\ LET g == VecOptionStorage_get(TypedView(last.m, t), last.idx)
                 IN  /\ IsSome(last.ret) <=> IsSome(g)
                     /\ IsSome(g) => Unwrap(last.ret) = [vtable |-> t, data |-> Unwrap(g)]

\* get_dyn has just returned a reference to the value at index 1, behind a
\* tombstone at index 0
C15_Witness ==
    /\ LastOnVec /\ last.op = "get_dyn" /\ last.idx = 1 /\ IsSome(last.ret)
    /\ hist[last.m][last.id].taken = {0}
    /\ Unwrap(last.ret).data = hist[last.m][last.id].written[1]

\* C16: in a program holding a multi-valued map and a single-valued map over
\* the same capability, every register, push, set, take and take_boxed on one
\* map, whether it returns or fails, leaves the other map as it was: its keys
\* and every storage behind them.
C16_PolicyIsolation ==
    [][\A m \in DOMAIN maps : m # last'.m => maps'[m] = maps[m]]_vars

\* both maps hold a value of type A, and the one in the multi-valued map has
\* just been taken while the single-valued map still holds its own
C16_Witness ==
    /\ last.m = "M" /\ last.op = "take" /\ IsSome(last.ret) /\ last.id = TypeIdOf("A")
    /\ TypeIdOf("A") \in Registered("S")
    /\ IsSome(StorageAt("S", TypeIdOf("A")).data)
    /\ StorageAt("M", TypeIdOf("A")).data = <<None>>

\* C17: inside one map every call that names a type (a registration, returning
\* or failing, and every storage operation, typed or through the handle) leaves
\* the key and the storage of every other registered type exactly as they were;
\* and a push into a storage that has never been pushed into returns 0 whatever
\* the storages of the other types hold.
C17_PerTypeIsolation ==
    [][/\ \A m \in DOMAIN maps : \A id \in DOMAIN maps[m].entries :
             id # last'.id =>
                /\ id \in DOMAIN maps'[m].entries
                /\ maps'[m].entries[id] = maps[m].entries[id]
       /\ (VecCall({"push"}) /\ Len(maps[last'.m].entries[last'.id].data) = 0)
             => last'.ret = Some(0)]_vars

\* the first push into the storage of A has just returned 0 while the storage
\* of B already holds a value
C17_Witness ==
    /\ LastOnVec /\ last.op = "push" /\ last.id = TypeIdOf("A") /\ last.ret = Some(0)
    /\ TypeIdOf("B") \in Registered(last.m)
    /\ LiveSlots(StorageAt(last.m, TypeIdOf("B"))) # {}

\* C18: a type for which get_trait_storage returns a handle keeps returning one
\* after every step, a failing duplicate registration and every take included:
\* no operation removes a key from a map.
C18_RegistrationIrreversible ==
    [][\A m \in DOMAIN maps : \A id \in TypeIds :
          IsSome(get_trait_storage(maps[m], id))
             => /\ IsSome(get_trait_storage(maps'[m], id))
                /\ DOMAIN maps[m].entries \subseteq DOMAIN maps'[m].entries]_vars

\* a second registration of A has just failed, and A and B still answer
\* get_trait_storage with a handle
C18_Witness ==
    /\ last.op = "register_type_storage" /\ last.err = ErrAlreadyRegistered
    /\ last.id = TypeIdOf("A")
    /\ IsSome(get_trait_storage(maps[last.m], TypeIdOf("A")))
    /\ IsSome(get_trait_storage(maps[last.m], TypeIdOf("B")))

\* the step just taken is call `ops` on the storage of id in map m, and returned
StorageCall(m, id, ops) ==
    last'.err = NoErr /\ last'.op \in ops /\ last'.m = m /\ last'.id = id

\* C19: under every operation on a multi-valued storage (every step but a
\* registration, which builds a storage object) the underlying sequence never
\* shrinks: a push makes it exactly one longer and the new last slot is live, a
\* take or take_boxed leaves its length unchanged and the slot it emptied stays
\* as an absent entry, an absent slot stays absent and a position beyond the
\* length can only become a live slot.
C19_SequenceNeverShrinks ==
    [][last'.op # "register_type_storage" =>
         \A m \in VecMaps : \A id \in DOMAIN maps[m].entries :
            LET d  == maps[m].entries[id].data
                d2 == maps'[m].entries[id].data
            IN  /\ Len(d2) >= Len(d)
                /\ StorageCall(m, id, {"push"})
                      => Len(d2) = Len(d) + 1 /\ IsSome(d2[Len(d2)])
                /\ ~StorageCall(m, id, {"push"}) => Len(d2) = Len(d)
                /\ (StorageCall(m, id, {"take", "take_boxed"}) /\ IsSome(last'.ret))
                      => /\ last'.idx < Len(d)
                         /\ IsSome(d[last'.idx + 1])
                         /\ IsNone(d2[last'.idx + 1])
                /\ \A i \in 1..Len(d) : IsNone(d[i]) => IsNone(d2[i])
                /\ \A i \in 1..Len(d2) : i > Len(d) => IsSome(d2[i])]_vars

\* the last slot of a storage with two slots has just been taken: the sequence
\* still has both slots, the first live and the last absent
C19_Witness ==
    /\ LastOnVec /\ last.op \in {"take", "take_boxed"} /\ IsSome(last.ret)
    /\ last.idx = 1
    /\ Len(StorageAt(last.m, last.id).data) = 2
    /\ IsSome(StorageAt(last.m, last.id).data[1])
    /\ IsNone(StorageAt(last.m, last.id).data[2])

\* C20: the live count of a multi-valued storage is never negative and is at
\* least 1 whenever a slot holds a value; under push, take and take_boxed (and
\* every other storage operation) it goes down only in a take or take_boxed
\* that returns a value, which runs with count >= 1 and lowers it by exactly 1,
\* and goes up only in a push, by exactly 1.
C20_CountNeverUnderflows ==
    [][/\ \A m \in VecMaps : \A id \in DOMAIN maps[m].entries :
             /\ maps[m].entries[id].count >= 0
             /\ LiveSlots(maps[m].entries[id]) # {} => maps[m].entries[id].count >= 1
       /\ last'.op # "register_type_storage" =>
             \A m \in VecMaps : \A id \in DOMAIN maps[m].entries :
                LET c  == maps[m].entries[id].count
                    c2 == maps'[m].entries[id].count
                IN  /\ c2 >= 0
                    /\ (StorageCall(m, id, {"take", "take_boxed"}) /\ IsSome(last'.ret))
                          => c >= 1 /\ c2 = c - 1
                    /\ c2 < c => /\ StorageCall(m, id, {"take", "take_boxed"})
                                 /\ IsSome(last'.ret)
                    /\ StorageCall(m, id, {"push"}) => c2 = c + 1
                    /\ c2 > c => StorageCall(m, id, {"push"})]_vars

\* the only live value of a storage has just been taken through take_boxed:
\* the count went from 1 to 0
C20_Witness ==
    /\ LastOnVec /\ last.op = "take_boxed" /\ IsSome(last.ret)
    /\ StorageAt(last.m, last.id).count = 0
    /\ Len(StorageAt(last.m, last.id).data) >= 1

\* C21: right after new() or with_capacity(n), for every n including 0, the map
\* has no registered type: get_trait_storage returns the empty option for every
\* id; and right after a register_type_storage::<T>() that returned, the storage
\* of T is empty: in a multi-valued map len() is 0, is_empty() holds and get(i)
\* and the handle's get(i) are empty for every i; in a single-valued map
\* is_some() is false and get() is empty.
C21_FreshIsEmpty ==
    /\ last.op \in {"new", "with_capacity"} =>
          \A m \in DOMAIN maps : \A id \in TypeIds :
             IsNone(get_trait_storage(maps[m], id))
    /\ (last.op = "register_type_storage" /\ last.err = NoErr) =>
          /\ last.id \in Registered(last.m)
          /\ IsVec(last.m) =>
                LET s == StorageAt(last.m, last.id)
                IN  /\ TraitVecStorage_len(s) = 0
                    /\ TraitVecStorage_is_empty(s)
                    /\ \A i \in Idx : /\ IsNone(VecOptionStorage_get(s, i))
                                      /\ IsNone(TraitVecStorage_get(s, i))
          /\ IsSingle(last.m) =>
                LET s == StorageAt(last.m, last.id)
                IN  /\ ~OptionStorage_is_some(s)
                    /\ ~TraitSingleStorage_is_some(s)
                    /\ IsNone(OptionStorage_get(s))

\* B has just been registered in a multi-valued map whose storage of A already
\* holds a value
C21_Witness ==
    /\ last.op = "register_type_storage" /\ last.err = NoErr
    /\ last.id = TypeIdOf("B") /\ IsVec(last.m)
    /\ TypeIdOf("A") \in Registered(last.m)
    /\ LiveSlots(StorageAt(last.m, TypeIdOf("A"))) # {}

=============================================================================
